---- MODULE Spec2Model ----
(***************************************************************************)
(* A model of aicscytoparam/cytoparam.py.  Every function of the file that *)
(* is analysed gets a call frame (one variable, a record of the function's *)
(* locals and of its position) and its own specification, which draws the  *)
(* call's arguments in its initial states and then runs the function body. *)
(*                                                                         *)
(*   SpecCrop   get_croppped_version                                       *)
(*   SpecGeo    get_geodesics (crop, heat relaxation, binning, paste)      *)
(*   SpecProbe  prob_image                                                 *)
(*   SpecShell  get_equipotential_surfaces_from_sh_coeffs                  *)
(*   SpecTrace  get_traces                                                 *)
(*   SpecVox    voxelize_meshes                                            *)
(*   SpecAvg    copy_content                                               *)
(*                                                                         *)
(* Numbers.  Exact quantities (interpolated coefficients, averages) are    *)
(* rationals <<n, d>> in lowest terms.  Quantities the code computes with  *)
(* exp, log and sqrt are fixed-point integers with FxScale units per 1.0.  *)
(* Floating-point rounding itself is not modelled.                         *)
(***************************************************************************)
EXTENDS Integers, Sequences, FiniteSets, TLC

VARIABLES crop, geo, probe, shell, trace, vox, avg

vars == <<crop, geo, probe, shell, trace, vox, avg>>

\* The frame of a function that is not being called in a specification.
Idle == [pc |-> "idle"]

----------------------------------------------------------------------------
(* Arithmetic helpers *)

Abs(a) == IF a < 0 THEN -a ELSE a

SetMin(S) == CHOOSE a \in S : \A b \in S : a <= b

SetMax(S) == CHOOSE a \in S : \A b \in S : a >= b

RECURSIVE Gcd(_, _)
Gcd(a, b) == IF b = 0 THEN Abs(a) ELSE Gcd(b, a % b)

\* The rational n/d (d # 0) in lowest terms with a positive denominator.
Rat(n, d) ==
    LET g == Gcd(Abs(n), Abs(d))
        s == IF d < 0 THEN -1 ELSE 1
    IN  <<(s * n) \div g, (s * d) \div g>>

RInt(n) == <<n, 1>>

RAdd(p, q) == Rat(p[1] * q[2] + q[1] * p[2], p[2] * q[2])

RSub(p, q) == Rat(p[1] * q[2] - q[1] * p[2], p[2] * q[2])

RMul(p, q) == Rat(p[1] * q[1], p[2] * q[2])

\* p / q for q # 0.
RDiv(p, q) == Rat(p[1] * q[2], p[2] * q[1])

RLeq(p, q) == p[1] * q[2] <= q[1] * p[2]

\* int(): truncation of the rational n/d toward zero.
TruncDiv(n, d) == IF n >= 0 THEN n \div d ELSE -((-n) \div d)

RECURSIVE SumSeq(_)
SumSeq(s) == IF s = <<>> THEN 0 ELSE Head(s) + SumSeq(Tail(s))

RECURSIVE SumOver(_, _)
\* The sum of f[a] over the finite set S.
SumOver(f, S) ==
    IF S = {} THEN 0
    ELSE LET a == CHOOSE b \in S : TRUE
         IN  f[a] + SumOver(f, S \ {a})

RECURSIVE SqrtIn(_, _, _)
\* The largest r in lo..hi with r * r <= n, given lo * lo <= n.
SqrtIn(n, lo, hi) ==
    IF lo >= hi THEN lo
    ELSE LET mid == (lo + hi + 1) \div 2
         IN  IF mid * mid <= n THEN SqrtIn(n, mid, hi) ELSE SqrtIn(n, lo, mid - 1)

\* Floor of the square root of n, 0 <= n < 2^30.
ISqrt(n) == SqrtIn(n, 0, 32767)

\* Fixed-point numbers: FxScale units per 1.0.
FxScale == 1000

----------------------------------------------------------------------------
(* Volumes: a numpy array of shape (nz, ny, nx), indexed [z, y, x]. *)

Index(shape) == (0..(shape[1] - 1)) \X (0..(shape[2] - 1)) \X (0..(shape[3] - 1))

Vol(shape, f) == [shape |-> shape, v |-> f]

\* np.where(a): the indices of the non-zero elements.
Where(a) == {p \in Index(a.shape) : a.v[p] # 0}

\* The length of a[start:stop] along an axis of length dim, 0 <= start.
SliceLen(start, stop, dim) ==
    LET s == IF start > dim THEN dim ELSE start
        e == IF stop > dim THEN dim ELSE stop
    IN  IF e > s THEN e - s ELSE 0

\* a[z0:z1, y0:y1, x0:x1]
Slice(a, z0, z1, y0, y1, x0, x1) ==
    LET shp == <<SliceLen(z0, z1, a.shape[1]),
                 SliceLen(y0, y1, a.shape[2]),
                 SliceLen(x0, x1, a.shape[3])>>
    IN  Vol(shp, [p \in Index(shp) |-> a.v[<<p[1] + z0, p[2] + y0, p[3] + x0>>]])

----------------------------------------------------------------------------
(* get_croppped_version *)

\* (zmin, zmax, ymin, ymax, xmin, xmax) of the non-zero voxels of mem.
Roi(mem) ==
    LET nz == Where(mem)
    IN  <<SetMin({p[1] : p \in nz}), SetMax({p[1] : p \in nz}),
          SetMin({p[2] : p \in nz}), SetMax({p[2] : p \in nz}),
          SetMin({p[3] : p \in nz}), SetMax({p[3] : p \in nz})>>

\* The stop index of the slice taken for an axis whose largest index is amax.
SliceStop(amax) == amax

\* a[zmin:zmax, ymin:ymax, xmin:xmax]
CropTo(a, roi) ==
    Slice(a, roi[1], SliceStop(roi[2]), roi[3], SliceStop(roi[4]),
             roi[5], SliceStop(roi[6]))

\* x.min() of an empty selection raises ValueError.
CropRaises(mem) == Where(mem) = {}

\* Side of the cubic test volumes, and the largest number of non-zero voxels.
CropSide == 3

MaxSeeds == 2

CropShape == <<CropSide, CropSide, CropSide>>

RECURSIVE SubsetsUpTo(_, _)
\* The subsets of S of at most k elements.
SubsetsUpTo(S, k) ==
    IF k = 0 THEN {{}}
    ELSE LET prev == SubsetsUpTo(S, k - 1)
         IN  prev \cup {T \cup {a} : T \in prev, a \in S}

SeedSets == SubsetsUpTo(Index(CropShape), MaxSeeds)

\* A label volume whose non-zero voxels are S.
Indicator(shape, S) == Vol(shape, [p \in Index(shape) |-> IF p \in S THEN 1 ELSE 0])

\* A volume each of whose voxels holds a value of its own.
Tagged(shape) ==
    Vol(shape, [p \in Index(shape) |->
                  1 + p[3] + shape[3] * (p[2] + shape[2] * p[1])])

InitCrop ==
    /\ \E S \in SeedSets, tagged \in BOOLEAN :
         crop = [pc |-> "call",
                 mem |-> Indicator(CropShape, S),
                 dna |-> IF tagged THEN Tagged(CropShape)
                                   ELSE Indicator(CropShape, S),
                 out_mem |-> Vol(<<0, 0, 0>>, <<>>),
                 out_dna |-> Vol(<<0, 0, 0>>, <<>>),
                 roi |-> <<>>]
    /\ geo = Idle /\ probe = Idle /\ shell = Idle
    /\ trace = Idle /\ vox = Idle /\ avg = Idle

CropReturn ==
    /\ crop.pc = "call"
    /\ ~CropRaises(crop.mem)
    /\ LET roi == Roi(crop.mem)
       IN  crop' = [crop EXCEPT !.pc = "done",
                                !.out_mem = CropTo(crop.mem, roi),
                                !.out_dna = CropTo(crop.dna, roi),
                                !.roi = roi]
    /\ UNCHANGED <<geo, probe, shell, trace, vox, avg>>

CropRaise ==
    /\ crop.pc = "call"
    /\ CropRaises(crop.mem)
    /\ crop' = [crop EXCEPT !.pc = "error"]
    /\ UNCHANGED <<geo, probe, shell, trace, vox, avg>>

NextCrop == CropReturn \/ CropRaise

SpecCrop == InitCrop /\ [][NextCrop]_vars

\* C3: whenever the cropper returns, every non-zero voxel of the membrane
\* volume (also one at the largest z, y or x index) is present in the cropped
\* membrane volume, both volumes are cut to the same index ranges, and the
\* returned offsets are the bounding box's smallest and largest indices.
C3_CropKeepsBoundingBox ==
    crop.pc = "done" =>
        /\ crop.roi = Roi(crop.mem)
        /\ crop.out_mem.shape = crop.out_dna.shape
        /\ \A p \in Where(crop.mem) :
              LET q == <<p[1] - crop.roi[1], p[2] - crop.roi[3], p[3] - crop.roi[5]>>
              IN  /\ q \in Index(crop.out_mem.shape)
                  /\ crop.out_mem.v[q] = crop.mem.v[p]
                  /\ crop.out_dna.v[q] = crop.dna.v[p]

----------------------------------------------------------------------------
(* prob_image *)

\* Mesh coordinates are multiples of 1/CoordDen; a point is <<x, y, z>>.
CoordDen == 2

\* Largest number of mesh points and of probed images in a call.
MaxProbePts == 2

MaxImages == 1

\* Sides of the probed images: shape (1, ProbeSide, ProbeSide + 1).
ProbeSide == 2

ProbeShape == <<1, ProbeSide, ProbeSide + 1>>

NVoxels(shape) == shape[1] * shape[2] * shape[3]

Linear(shape, p) == p[3] + shape[3] * (p[2] + shape[2] * p[1])

\* The images: every voxel holds a value of its own, the minimum sits at a
\* voxel that depends on k.
ProbeImage(k) ==
    Vol(ProbeShape, [p \in Index(ProbeShape) |->
                       1 + ((Linear(ProbeShape, p) + k) % NVoxels(ProbeShape))])

ProbeImages == {ProbeImage(k) : k \in 0..(NVoxels(ProbeShape) - 1)}

\* Coordinates along an axis of length dim: the whole numbers from -(dim+1)
\* to dim, and -1/CoordDen.
AxisCoords(dim) == {CoordDen * w : w \in (-(dim + 1))..dim} \cup {-1}

ProbePoints ==
    AxisCoords(ProbeShape[3]) \X AxisCoords(ProbeShape[2]) \X AxisCoords(ProbeShape[1])

\* img.min()
VolMin(img) == SetMin({img.v[p] : p \in Index(img.shape)})

\* int(c) of the coordinate c = h / CoordDen
IntCoord(h) == TruncDiv(h, CoordDen)

\* The position numpy reads for index idx on an axis of length dim: negative
\* indices count from the end; -1 stands for IndexError.
PyIndex(idx, dim) ==
    IF 0 <= idx /\ idx < dim THEN idx
    ELSE IF -dim <= idx /\ idx < 0 THEN idx + dim
    ELSE -1

\* v = vmin; try: v = img[int(r[2]), int(r[1]), int(r[0])]; except: pass
ProbeValue(img, vmin, r) ==
    LET z == PyIndex(IntCoord(r[3]), img.shape[1])
        y == PyIndex(IntCoord(r[2]), img.shape[2])
        x == PyIndex(IntCoord(r[1]), img.shape[3])
    IN  IF z = -1 \/ y = -1 \/ x = -1 THEN vmin ELSE img.v[<<z, y, x>>]

RECURSIVE SeqsUpTo(_, _)
\* The sequences over S of length at most k.
SeqsUpTo(S, k) ==
    IF k = 0 THEN {<<>>}
    ELSE LET prev == SeqsUpTo(S, k - 1)
         IN  prev \cup {Append(q, a) : q \in prev, a \in S}

InitProbe ==
    /\ \E n \in 0..MaxProbePts, imgs \in SeqsUpTo(ProbeImages, MaxImages) :
         probe = [pc |-> "image", n |-> n, images_to_probe |-> imgs, k |-> 0,
                  vmin |-> 0, i |-> 0, r |-> <<0, 0, 0>>,
                  scalars |-> <<>>, arrays |-> <<>>]
    /\ crop = Idle /\ geo = Idle /\ shell = Idle
    /\ trace = Idle /\ vox = Idle /\ avg = Idle

\* for img, name in images_to_probe: vmin = img.min(); scalars = vtkFloatArray()
ProbeBeginImage ==
    /\ probe.pc = "image"
    /\ probe.k < Len(probe.images_to_probe)
    /\ probe' = [probe EXCEPT !.pc = "point",
                              !.vmin = VolMin(probe.images_to_probe[probe.k + 1]),
                              !.i = 0,
                              !.scalars = <<>>]
    /\ UNCHANGED <<crop, geo, shell, trace, vox, avg>>

\* One pass of "for i in range(n)"; r is the point polydata.GetPoint(i) yields.
ProbePoint ==
    /\ probe.pc = "point"
    /\ probe.i < probe.n
    /\ \E r \in ProbePoints :
         probe' = [probe EXCEPT
                     !.r = r,
                     !.scalars = Append(probe.scalars,
                                   ProbeValue(probe.images_to_probe[probe.k + 1],
                                              probe.vmin, r)),
                     !.i = probe.i + 1]
    /\ UNCHANGED <<crop, geo, shell, trace, vox, avg>>

\* polydata.GetPointData().AddArray(scalars)
ProbeAddArray ==
    /\ probe.pc = "point"
    /\ probe.i = probe.n
    /\ probe' = [probe EXCEPT !.pc = "image",
                              !.arrays = Append(probe.arrays, probe.scalars),
                              !.k = probe.k + 1]
    /\ UNCHANGED <<crop, geo, shell, trace, vox, avg>>

ProbeReturn ==
    /\ probe.pc = "image"
    /\ probe.k = Len(probe.images_to_probe)
    /\ probe' = [probe EXCEPT !.pc = "done"]
    /\ UNCHANGED <<crop, geo, shell, trace, vox, avg>>

NextProbe == ProbeBeginImage \/ ProbePoint \/ ProbeAddArray \/ ProbeReturn

SpecProbe == InitProbe /\ [][NextProbe]_vars

\* The truncated voxel coordinate of point r, as <<z, y, x>>.
VoxelOf(r) == <<IntCoord(r[3]), IntCoord(r[2]), IntCoord(r[1])>>

\* C2: the value written for a point whose truncated voxel coordinate lies
\* outside the volume's index range on some axis (below 0, or at or above the
\* dimension) is the volume's minimum; for a point inside it is the voxel's
\* value; every attached array holds exactly one value per point.
C2_ProbeOutsideIsMinimum ==
    /\ (probe.pc = "point" /\ probe.i > 0) =>
          LET img == probe.images_to_probe[probe.k + 1]
              t == VoxelOf(probe.r)
              v == probe.scalars[probe.i]
          IN  IF t \in Index(img.shape) THEN v = img.v[t] ELSE v = probe.vmin
    /\ probe.pc # "idle" => \A a \in 1..Len(probe.arrays) : Len(probe.arrays[a]) = probe.n

----------------------------------------------------------------------------
(* get_equipotential_surfaces_from_sh_coeffs *)

\* Coefficient vectors have length 2 (lmax + 1)^2 for lmax in 0..MaxLmax.
MaxLmax == 1

\* Largest entry of nisos.
MaxIso == 2

CoeffLengths == {2 * (l + 1) * (l + 1) : l \in 0..MaxLmax}

\* The coefficient vectors drawn as arguments: the values of the dictionary
\* in insertion order.
CoeffVec(len, a, b) == [j \in 1..len |-> a + b * (j - 1)]

CoeffVecs == {CoeffVec(len, a, b) : len \in CoeffLengths, a \in {-1, 2}, b \in {0, 1}}

\* centroids = np.c_[nuc_centroid, nuc_centroid, mem_centroid], or None.
NoCentroids == <<>>

CentroidChoices == {NoCentroids, <<<<1, 2, 3>>, <<1, 2, 3>>, <<4, 2, 0>>>>}

\* lmax = int(np.sqrt(nc/2.) - 1)
Lmax(nc) ==
    IF nc = 0 THEN -1
    ELSE IF nc < 2 THEN 0
    ELSE SetMax({r \in 0..nc : 2 * r * r <= nc}) - 1

LengthsDifferLess(mem_coeffs, nuc_coeffs) == Len(mem_coeffs) > Len(nuc_coeffs)

\* if nc != len(nuc_coeffs): raise ValueError
LengthsDiffer(mem_coeffs, nuc_coeffs) == Len(mem_coeffs) # Len(nuc_coeffs)

\* ctr_coeffs = np.array([0 if i else 1 for i in range(nc)])
CtrCoeffs(nc) == [j \in 1..nc |-> IF j = 1 THEN 1 ELSE 0]

RatVec(v) == [j \in 1..Len(v) |-> RInt(v[j])]

\* iso_values = np.cumsum([0.0] + nisos); iso_values / iso_values[-1]
IsoValues(nisos) ==
    LET c2 == nisos[1]
        c3 == nisos[1] + nisos[2]
    IN  <<Rat(0, c3), Rat(c2, c3), Rat(c3, c3)>>

LinspaceOpen(num, i) == Rat(i, num)

\* np.linspace(0.0, 1.0, num)[i], num > 1
Linspace(num, i) == Rat(i, num - 1)

\* np.searchsorted(xs, s): the number of breakpoints below s.
SearchSorted(xs, s) == Cardinality({j \in 1..Len(xs) : ~RLeq(s, xs[j])})

\* scipy.interpolate.interp1d(xs, ys)(s), linear, for xs[1] <= s <= xs[Len(xs)]:
\* slope * (s - x_lo) + y_lo on the interval (x_lo, x_hi] that holds s.
Interp1d(xs, ys, s) ==
    LET k  == SearchSorted(xs, s)
        hi == (IF k < 1 THEN 1 ELSE IF k > Len(xs) - 1 THEN Len(xs) - 1 ELSE k) + 1
        lo == hi - 1
    IN  [j \in 1..Len(ys[1]) |->
           RAdd(RMul(RDiv(RSub(ys[hi][j], ys[lo][j]), RSub(xs[hi], xs[lo])),
                     RSub(s, xs[lo])),
                ys[lo][j])]

\* coeffs.reshape(2, lmax+1, lmax+1) raises unless the sizes agree.
ReshapeRaises(nc, lmax) == nc # 2 * (lmax + 1) * (lmax + 1)

InitShell ==
    /\ \E mem \in CoeffVecs, nuc \in CoeffVecs,
          n_nuc \in 1..MaxIso, n_mem \in 1..MaxIso,
          cen \in CentroidChoices, prb \in BOOLEAN :
         shell = [pc |-> "call", mem_coeffs |-> mem, nuc_coeffs |-> nuc,
                  nisos |-> <<n_nuc, n_mem>>, centroids |-> cen,
                  images_to_probe |-> prb,
                  nc |-> 0, lmax |-> 0, coeffs |-> <<>>, iso_values |-> <<>>,
                  interpolators |-> 0, i |-> 0, meshes |-> <<>>,
                  reconstructed |-> 0, translated |-> 0, probed |-> 0]
    /\ crop = Idle /\ geo = Idle /\ probe = Idle
    /\ trace = Idle /\ vox = Idle /\ avg = Idle

\* nc, lmax and the length check.
ShellCheckLengths ==
    /\ shell.pc = "call"
    /\ shell' = [shell EXCEPT
                   !.nc = Len(shell.mem_coeffs),
                   !.lmax = Lmax(Len(shell.mem_coeffs)),
                   !.pc = IF LengthsDiffer(shell.mem_coeffs, shell.nuc_coeffs)
                          THEN "error" ELSE "build"]
    /\ UNCHANGED <<crop, geo, probe, trace, vox, avg>>

\* The control points, the breakpoints and the interpolators.
ShellBuild ==
    /\ shell.pc = "build"
    /\ shell' = [shell EXCEPT
                   !.coeffs = <<RatVec(CtrCoeffs(shell.nc)),
                                RatVec([j \in 1..shell.nc |-> shell.nuc_coeffs[j]]),
                                RatVec(shell.mem_coeffs)>>,
                   !.iso_values = IsoValues(shell.nisos),
                   !.interpolators =
                       IF shell.centroids = NoCentroids THEN 1 ELSE 2,
                   !.i = 0,
                   !.pc = "loop"]
    /\ UNCHANGED <<crop, geo, probe, trace, vox, avg>>

NumShells(nisos) == 1 + nisos[1] + nisos[2]

\* One pass of "for i, s in enumerate(np.linspace(0.0, 1.0, 1+np.sum(nisos)))".
\* A mesh is recorded by the coefficients it was reconstructed from and the
\* centroid it was translated by.
ShellStep ==
    /\ shell.pc = "loop"
    /\ shell.i < NumShells(shell.nisos)
    /\ LET s == Linspace(NumShells(shell.nisos), shell.i)
           c == Interp1d(shell.iso_values, shell.coeffs, s)
           hasCen == shell.centroids # NoCentroids
       IN  IF ReshapeRaises(shell.nc, shell.lmax)
           THEN shell' = [shell EXCEPT !.pc = "error"]
           ELSE shell' = [shell EXCEPT
                   !.meshes = Append(shell.meshes,
                       [s |-> s, coeffs |-> c,
                        centroid |-> IF hasCen
                                     THEN Interp1d(shell.iso_values,
                                              <<RatVec(shell.centroids[1]),
                                                RatVec(shell.centroids[2]),
                                                RatVec(shell.centroids[3])>>, s)
                                     ELSE <<>>,
                        probed |-> shell.images_to_probe]),
                   !.reconstructed = shell.reconstructed + 1,
                   !.translated = shell.translated + (IF hasCen THEN 1 ELSE 0),
                   !.probed = shell.probed + (IF shell.images_to_probe THEN 1 ELSE 0),
                   !.i = shell.i + 1]
    /\ UNCHANGED <<crop, geo, probe, trace, vox, avg>>

ShellReturn ==
    /\ shell.pc = "loop"
    /\ shell.i = NumShells(shell.nisos)
    /\ shell' = [shell EXCEPT !.pc = "done"]
    /\ UNCHANGED <<crop, geo, probe, trace, vox, avg>>

NextShell == ShellCheckLengths \/ ShellBuild \/ ShellStep \/ ShellReturn

SpecShell == InitShell /\ [][NextShell]_vars

C7_MismatchRaisesFirst ==
    (shell.pc # "idle" /\ Len(shell.mem_coeffs) # Len(shell.nuc_coeffs)) =>
        /\ shell.pc \in {"call", "error"}
        /\ shell.interpolators = 0
        /\ shell.reconstructed = 0
        /\ shell.translated = 0
        /\ shell.probed = 0
        /\ shell.meshes = <<>>

\* A call with vectors of different lengths that has failed.
C7_Witness ==
    /\ shell.pc = "error"
    /\ Len(shell.mem_coeffs) < Len(shell.nuc_coeffs)
    /\ shell.images_to_probe
    /\ shell.centroids # NoCentroids

----------------------------------------------------------------------------
(* copy_content *)

\* Largest number of sources and of destination points.
MaxSources == 2

MaxNpts == 2

\* Names of point arrays, the lists of requested names, the array values.
ArrayNames == {"a", "b"}

ArrayLists == {<<"a">>, <<"a", "b">>}

ArrayVals == {0, 2}

AvgName(name) == <<name, "_avg">>

\* The arrays of length n over ArrayVals.
RECURSIVE ArraysOfLen(_)
ArraysOfLen(n) ==
    IF n = 0 THEN {<<>>}
    ELSE {Append(q, a) : q \in ArraysOfLen(n - 1), a \in ArrayVals}

\* What a source file may hold under one name: nothing, an array of the
\* destination's length, or an array one element longer.
Absent == [present |-> FALSE, vals |-> <<>>]

ArrayChoices(npts) ==
    {Absent}
    \cup {[present |-> TRUE, vals |-> a] : a \in ArraysOfLen(npts)}
    \cup {[present |-> TRUE, vals |-> [j \in 1..(npts + 1) |-> 0]]}

\* The meshes a reader may return when the names in arrays are requested
\* (arrays of other names are never looked at and are left out).
Meshes(npts, arrays) ==
    {m \in [ArrayNames -> ArrayChoices(npts)] :
        \A n \in ArrayNames :
           (\A arr \in 1..Len(arrays) : arrays[arr] # n) => m[n] = Absent}

\* if array not in available_arrays
ArrayMissing(mesh, name) == ~mesh[name].present

ShapeMismatchShort(vals, npts) == Len(vals) < npts

\* if scalars.shape != data[arr].shape
ShapeMismatch(vals, npts) == Len(vals) # npts

\* scalars.max() raises on an empty array.
MaxRaises(vals) == Len(vals) = 0

SeqMax(vals) == SetMax({vals[j] : j \in 1..Len(vals)})

ShouldNormalizeAlways(normalize, smax) == smax > 0

\* normalize & (smax > 0.)
ShouldNormalize(normalize, smax) == normalize /\ (smax > 0)

\* The array added to data[arr]: scalars, divided by its maximum when asked.
Scaled(vals, normalize) ==
    LET smax == SeqMax(vals)
    IN  [j \in 1..Len(vals) |->
           IF ShouldNormalize(normalize, smax) THEN Rat(vals[j], smax)
           ELSE RInt(vals[j])]

\* Whether processing requested array number arr of the mesh raises.
ArrayRaises(mesh, arrays, arr, npts) ==
    \/ ArrayMissing(mesh, arrays[arr])
    \/ ShapeMismatch(mesh[arrays[arr]].vals, npts)
    \/ MaxRaises(mesh[arrays[arr]].vals)

\* The requested arrays processed before the first one that raises.
Processed(mesh, arrays, npts) ==
    {arr \in 1..Len(arrays) :
        \A k \in 1..arr : ~ArrayRaises(mesh, arrays, k, npts)}

\* data after the pass over one existing source.
Accumulate(data, mesh, arrays, npts, normalize) ==
    [arr \in 1..Len(arrays) |->
       IF arr \in Processed(mesh, arrays, npts)
       THEN LET sc == Scaled(mesh[arrays[arr]].vals, normalize)
            IN  [j \in 1..npts |-> RAdd(data[arr][j], sc[j])]
       ELSE data[arr]]

\* AddArray: an array of the same name is replaced.
AddArray(dest, name, vals) ==
    {a \in dest : a.name # name} \cup {[name |-> name, vals |-> vals]}

RECURSIVE AttachAll(_, _, _, _, _)
\* for array, name in zip(data, arrays): array /= len(sources); AddArray
AttachAll(dest, data, arrays, nsources, arr) ==
    IF arr > Len(arrays) THEN dest
    ELSE AttachAll(
           AddArray(dest, AvgName(arrays[arr]),
                    [j \in 1..Len(data[arr]) |-> RDiv(data[arr][j], RInt(nsources))]),
           data, arrays, nsources, arr + 1)

\* The point arrays the destination holds before the call: one array of
\* another name.
Destination0(npts) ==
    {[name |-> <<"length", "">>, vals |-> [j \in 1..npts |-> RInt(1)]]}

NoMesh == [n \in ArrayNames |-> Absent]

InitAvg ==
    /\ \E nsrc \in 1..MaxSources, npts \in 0..MaxNpts, arrays \in ArrayLists,
          normalize \in BOOLEAN :
         LET dest == Destination0(npts) IN
           avg = [pc |-> "loop", nsources |-> nsrc, npts |-> npts,
                  arrays |-> arrays, normalize |-> normalize,
                  data |-> [arr \in 1..Len(arrays) |-> [j \in 1..npts |-> RInt(0)]],
                  s |-> 0, exists |-> FALSE, mesh |-> NoMesh,
                  destination |-> dest, destination0 |-> dest]
    /\ crop = Idle /\ geo = Idle /\ probe = Idle
    /\ shell = Idle /\ trace = Idle /\ vox = Idle

\* if os.path.exists(source) is false: the source is skipped.
AvgSkipSource ==
    /\ avg.pc = "loop"
    /\ avg.s < avg.nsources
    /\ avg' = [avg EXCEPT !.s = avg.s + 1, !.exists = FALSE, !.mesh = NoMesh]
    /\ UNCHANGED <<crop, geo, probe, shell, trace, vox>>

\* The source exists, the reader returns mesh, every requested array is added.
AvgAccumulate ==
    /\ avg.pc = "loop"
    /\ avg.s < avg.nsources
    /\ \E mesh \in Meshes(avg.npts, avg.arrays) :
         /\ \A arr \in 1..Len(avg.arrays) :
               ~ArrayRaises(mesh, avg.arrays, arr, avg.npts)
         /\ avg' = [avg EXCEPT
                      !.s = avg.s + 1, !.exists = TRUE, !.mesh = mesh,
                      !.data = Accumulate(avg.data, mesh, avg.arrays, avg.npts,
                                          avg.normalize)]
    /\ UNCHANGED <<crop, geo, probe, shell, trace, vox>>

\* The source exists and one of the requested arrays raises.
AvgRaise ==
    /\ avg.pc = "loop"
    /\ avg.s < avg.nsources
    /\ \E mesh \in Meshes(avg.npts, avg.arrays) :
         /\ \E arr \in 1..Len(avg.arrays) :
               ArrayRaises(mesh, avg.arrays, arr, avg.npts)
         /\ avg' = [avg EXCEPT
                      !.s = avg.s + 1, !.exists = TRUE, !.mesh = mesh,
                      !.data = Accumulate(avg.data, mesh, avg.arrays, avg.npts,
                                          avg.normalize),
                      !.pc = "error"]
    /\ UNCHANGED <<crop, geo, probe, shell, trace, vox>>

\* After the loop: divide by len(sources), attach '<name>_avg', return.
AvgAttach ==
    /\ avg.pc = "loop"
    /\ avg.s = avg.nsources
    /\ avg' = [avg EXCEPT
                 !.destination = AttachAll(avg.destination, avg.data, avg.arrays,
                                           avg.nsources, 1),
                 !.pc = "done"]
    /\ UNCHANGED <<crop, geo, probe, shell, trace, vox>>

NextAvg == AvgSkipSource \/ AvgAccumulate \/ AvgRaise \/ AvgAttach

SpecAvg == InitAvg /\ [][NextAvg]_vars

\* The single source of the call has been read, exists and holds every
\* requested array with one value per destination point.
OneGoodSource ==
    /\ avg.pc # "idle"
    /\ avg.nsources = 1 /\ avg.s = 1 /\ avg.exists
    /\ \A arr \in 1..Len(avg.arrays) :
          /\ avg.mesh[avg.arrays[arr]].present
          /\ Len(avg.mesh[avg.arrays[arr]].vals) = avg.npts

\* The destination holds array name with exactly the values vals.
Holds(dest, name, vals) == [name |-> name, vals |-> vals] \in dest

\* C1 as stated: a call with exactly one existing source holding the
\* requested array A returns with '<name>_avg' attached and equal to A element
\* for element, with normalize=False and with normalize=True, for every A.
C1_AverageOfOneIsIdentity ==
    (OneGoodSource /\ avg.pc = "done") =>
        \A arr \in 1..Len(avg.arrays) :
           Holds(avg.destination, AvgName(avg.arrays[arr]),
                 RatVec(avg.mesh[avg.arrays[arr]].vals))

\* A divided by its maximum when that is positive, else A.
DividedByMax(vals) ==
    IF SeqMax(vals) > 0 THEN [j \in 1..Len(vals) |-> Rat(vals[j], SeqMax(vals))]
    ELSE RatVec(vals)

\* C1 amended: for a non-empty array A the call attaches '<name>_avg'; it
\* equals A with normalize=False, and with normalize=True it equals A
\* divided by max(A) when max(A) > 0 and A otherwise.
C1_AverageOfOne ==
    (OneGoodSource /\ avg.npts > 0) =>
        /\ avg.pc # "error"
        /\ avg.pc = "done" =>
              \A arr \in 1..Len(avg.arrays) :
                 Holds(avg.destination, AvgName(avg.arrays[arr]),
                       IF avg.normalize
                       THEN DividedByMax(avg.mesh[avg.arrays[arr]].vals)
                       ELSE RatVec(avg.mesh[avg.arrays[arr]].vals))

\* A finished call with one source, normalize=True, whose array has a maximum
\* other than 1 and a smaller element.
C1_Witness ==
    /\ OneGoodSource /\ avg.pc = "done" /\ avg.normalize
    /\ avg.npts = 2
    /\ avg.mesh["a"].vals = <<2, 0>>
    /\ Holds(avg.destination, AvgName("a"), <<RInt(1), RInt(0)>>)

\* The source just read exists and lacks a requested array or holds one
\* whose length is not the destination's point count.
BadSource ==
    /\ avg.pc # "idle" /\ avg.s > 0 /\ avg.exists
    /\ \E arr \in 1..Len(avg.arrays) :
          \/ ~avg.mesh[avg.arrays[arr]].present
          \/ Len(avg.mesh[avg.arrays[arr]].vals) # avg.npts

\* C10: reading an existing source that lacks a requested array, or holds it
\* with a length other than the destination's point count, aborts the call,
\* and an aborted call leaves the destination's point arrays as they were.
C10_BadSourceAborts ==
    /\ BadSource => avg.pc = "error"
    /\ (avg.pc = "error") => avg.destination = avg.destination0

\* A call aborted by its second source after the first was accumulated.
C10_Witness ==
    /\ BadSource /\ avg.pc = "error" /\ avg.s = 2
    /\ \E j \in 1..avg.npts : avg.data[1][j] # RInt(0)
    /\ avg.destination = avg.destination0

----------------------------------------------------------------------------
(* get_traces *)

\* Largest number of shells and of points per shell.
MaxShells == 3

MaxTracePts == 1

\* The coordinates <<x, y, z>> the mesh points are drawn from.
TracePoints == {<<0, 0, 0>>, <<3, 4, 0>>, <<3, 0, 0>>, <<6, 8, 0>>, <<1, 1, 1>>}

RECURSIVE TupleSeqs(_, _)
\* The sequences of length n over S.
TupleSeqs(S, n) ==
    IF n = 0 THEN {<<>>}
    ELSE {Append(q, a) : q \in TupleSeqs(S, n - 1), a \in S}

\* The shell sequences: nshells meshes of npts points each.
ShellSeqs(nshells, npts) == TupleSeqs(TupleSeqs(TracePoints, npts), nshells)

\* np.sqrt(((np.array(ro) - np.array(r))**2).sum()), in fixed point
Dist(ro, r) ==
    ISqrt(FxScale * FxScale *
          ((ro[1] - r[1]) * (ro[1] - r[1]) + (ro[2] - r[2]) * (ro[2] - r[2])
           + (ro[3] - r[3]) * (ro[3] - r[3])))

\* ro = [0,0,0] before the inner loop
FirstRo == <<0, 0, 0>>

InitTrace ==
    /\ \E nshells \in 1..MaxShells, npts \in 1..MaxTracePts, prb \in BOOLEAN :
         \E meshes \in ShellSeqs(nshells, npts) :
           trace = [pc |-> "points", meshes |-> meshes, images_to_probe |-> prb,
                    npts |-> npts, i |-> 0, trace |-> <<>>, iso |-> 0,
                    dr |-> 0, ro |-> FirstRo,
                    pts |-> <<>>, cells |-> <<>>,
                    scalars_isoval |-> <<>>, scalars_length |-> <<>>,
                    arrays |-> {}, probed |-> FALSE]
    /\ crop = Idle /\ geo = Idle /\ probe = Idle
    /\ shell = Idle /\ vox = Idle /\ avg = Idle

\* for i in range(npts): gather point i of every mesh, open a cell.
TraceBeginPoint ==
    /\ trace.pc = "points"
    /\ trace.i < trace.npts
    /\ trace' = [trace EXCEPT
                   !.trace = [k \in 1..Len(trace.meshes) |->
                                 trace.meshes[k][trace.i + 1]],
                   !.cells = Append(trace.cells, <<>>),
                   !.dr = 0,
                   !.ro = FirstRo,
                   !.iso = 0,
                   !.pc = "isos"]
    /\ UNCHANGED <<crop, geo, probe, shell, vox, avg>>

\* for iso, r in enumerate(trace)
TraceStep ==
    /\ trace.pc = "isos"
    /\ trace.iso < Len(trace.trace)
    /\ LET r == trace.trace[trace.iso + 1]
           pid == Len(trace.pts)
           dr == trace.dr + Dist(trace.ro, r)
       IN  trace' = [trace EXCEPT
                       !.pts = Append(trace.pts, r),
                       !.cells[Len(trace.cells)] = Append(@, pid),
                       !.scalars_isoval = Append(trace.scalars_isoval, trace.iso),
                       !.dr = dr,
                       !.scalars_length = Append(trace.scalars_length, dr),
                       !.ro = r,
                       !.iso = trace.iso + 1]
    /\ UNCHANGED <<crop, geo, probe, shell, vox, avg>>

TraceEndPoint ==
    /\ trace.pc = "isos"
    /\ trace.iso = Len(trace.trace)
    /\ trace' = [trace EXCEPT !.i = trace.i + 1, !.pc = "points"]
    /\ UNCHANGED <<crop, geo, probe, shell, vox, avg>>

\* The polydata: points, lines, the two arrays, and the probe when asked.
TraceReturn ==
    /\ trace.pc = "points"
    /\ trace.i = trace.npts
    /\ trace' = [trace EXCEPT !.arrays = {"isoval", "length"},
                              !.probed = trace.images_to_probe,
                              !.pc = "done"]
    /\ UNCHANGED <<crop, geo, probe, shell, vox, avg>>

NextTrace == TraceBeginPoint \/ TraceStep \/ TraceEndPoint \/ TraceReturn

SpecTrace == InitTrace /\ [][NextTrace]_vars

RECURSIVE ChordLength(_, _, _)
\* The sum of the distances between point i on consecutive shells 0..k.
ChordLength(meshes, i, k) ==
    IF k = 0 THEN 0
    ELSE ChordLength(meshes, i, k - 1) + Dist(meshes[k][i + 1], meshes[k + 1][i + 1])

\* C8: the polyline of point index i has one point per shell in shell order;
\* its k-th point carries isoval k and length equal to the chord length
\* accumulated from shell 0 to shell k (0 at shell 0), wherever the shells lie.
C8_RawTraceLengths ==
    trace.pc = "done" =>
        LET n == Len(trace.meshes)
        IN  /\ Len(trace.pts) = n * trace.npts
            /\ Len(trace.cells) = trace.npts
            /\ \A i \in 0..(trace.npts - 1) :
                  /\ trace.cells[i + 1] = [k \in 1..n |-> i * n + k - 1]
                  /\ \A k \in 0..(n - 1) :
                        /\ trace.pts[i * n + k + 1] = trace.meshes[k + 1][i + 1]
                        /\ trace.scalars_isoval[i * n + k + 1] = k
                        /\ trace.scalars_length[i * n + k + 1]
                              = ChordLength(trace.meshes, i, k)

----------------------------------------------------------------------------
(* voxelize_meshes, voxelize_mesh *)

\* Largest number of meshes in the list.
MaxVoxShells == 257

\* np.uint8 arithmetic is modulo 2^8.
Uint8Mod == 256

\* A mesh is a closed surface around centre c with radius r: its points reach
\* c[k] - r and c[k] + r on every axis, and it encloses the voxel centres
\* within distance r of c.
VoxCentre == <<0, 0, 0>>

VoxRadii == {1, 2}

VoxMeshes == {[c |-> VoxCentre, r |-> r] : r \in VoxRadii}

\* rmin = (coords.min(axis=0)-0.5).astype(np.int), as <<x, y, z>>
Rmin(mesh) == [k \in 1..3 |-> TruncDiv(2 * (mesh.c[k] - mesh.r) - 1, 2)]

\* rmax = (coords.max(axis=0)+0.5).astype(np.int)
Rmax(mesh) == [k \in 1..3 |-> TruncDiv(2 * (mesh.c[k] + mesh.r) + 1, 2)]

\* (d, h, w) with w = 2 + (rmax[0]-rmin[0]), h and d alike
VoxShape(mesh) ==
    <<2 + (Rmax(mesh)[3] - Rmin(mesh)[3]),
      2 + (Rmax(mesh)[2] - Rmin(mesh)[2]),
      2 + (Rmax(mesh)[1] - Rmin(mesh)[1])>>

\* Whether the mesh encloses the centre of voxel p = <<z, y, x>> of the image
\* whose origin is rmin.
Encloses(mesh, rmin, p) ==
    LET dx == rmin[1] + p[3] - mesh.c[1]
        dy == rmin[2] + p[2] - mesh.c[2]
        dz == rmin[3] + p[1] - mesh.c[3]
    IN  dx * dx + dy * dy + dz * dz <= mesh.r * mesh.r

\* voxelize_mesh: the image of ones with everything outside the mesh set to 0.
VoxelizeMesh(shape, mesh, origin) ==
    [p \in Index(shape) |-> IF Encloses(mesh, origin, p) THEN 1 ELSE 0]

\* img += seg on np.uint8 elements
AddUint8(a, b) == (a + b) % Uint8Mod

InitVox ==
    /\ \E first \in VoxMeshes :
         vox = [pc |-> "call", first |-> first, rmin |-> <<0, 0, 0>>,
                shape |-> <<0, 0, 0>>, img |-> <<>>, k |-> 0,
                enclosing |-> [r \in VoxRadii |-> 0]]
    /\ crop = Idle /\ geo = Idle /\ probe = Idle
    /\ shell = Idle /\ trace = Idle /\ avg = Idle

\* The bounding box of meshes[0], the image of ones, img = zeros((d,h,w)).
VoxAllocate ==
    /\ vox.pc = "call"
    /\ vox' = [vox EXCEPT
                 !.rmin = Rmin(vox.first),
                 !.shape = VoxShape(vox.first),
                 !.img = [p \in Index(VoxShape(vox.first)) |-> 0],
                 !.pc = "loop"]
    /\ UNCHANGED <<crop, geo, probe, shell, trace, avg>>

\* One pass of "for mesh in meshes": the first pass takes meshes[0].
\* enclosing counts the meshes of each radius taken so far.
VoxAddMesh ==
    /\ vox.pc = "loop"
    /\ vox.k < MaxVoxShells
    /\ \E mesh \in VoxMeshes :
         /\ vox.k = 0 => mesh = vox.first
         /\ LET seg == VoxelizeMesh(vox.shape, mesh, vox.rmin)
            IN  vox' = [vox EXCEPT
                          !.img = [p \in Index(vox.shape) |->
                                      AddUint8(vox.img[p], seg[p])],
                          !.enclosing[mesh.r] = @ + 1,
                          !.k = vox.k + 1]
    /\ UNCHANGED <<crop, geo, probe, shell, trace, avg>>

\* The list is exhausted: return img, origin.
VoxReturn ==
    /\ vox.pc = "loop"
    /\ vox.k >= 1
    /\ vox' = [vox EXCEPT !.pc = "done"]
    /\ UNCHANGED <<crop, geo, probe, shell, trace, avg>>

NextVox == VoxAllocate \/ VoxAddMesh \/ VoxReturn

SpecVox == InitVox /\ [][NextVox]_vars

\* The number of meshes of the list that enclose voxel p.
EnclosingCount(p) ==
    SumOver([r \in VoxRadii |->
               IF Encloses([c |-> VoxCentre, r |-> r], vox.rmin, p)
               THEN vox.enclosing[r] ELSE 0],
            VoxRadii)

\* C6: for a shell sequence of any length every voxel of the returned volume
\* equals the number of shells that enclose it; the count does not wrap.
C6_VoxelCountsShells ==
    vox.pc = "done" =>
        \A p \in Index(vox.shape) : vox.img[p] = EnclosingCount(p)

----------------------------------------------------------------------------
(* get_geodesics, heat_eq_step *)

\* Side of the cubic input volumes.
GeoSide == 4

\* Largest dmax drawn when the distance transform has no background voxel
\* to measure from (its values are then left to the library).
MaxFreeDmax == 1

\* for run in range(50*dmax)
RunsPerDmax == 50

\* selem=np.ones((13,13,13)): a cube of half-width 6
FreezeHalfWidth == 6

GeoShape == <<GeoSide, GeoSide, GeoSide>>

GeoNisos == {2, 8}

\* A cube of voxels, lo..hi on every axis.
Cube(lo, hi) == (lo..hi) \X (lo..hi) \X (lo..hi)

\* Voxels that may be missing from the membrane cube: none, its corner, or
\* the centre of its z = 0 face.
Notches == {{}, {<<0, 0, 0>>}, {<<0, 1, 1>>}}

RECURSIVE ExpTerms(_, _, _)
\* The terms x^k / k! of the exponential series from the k-th on, in fixed
\* point, until they vanish.
ExpTerms(x, term, k) ==
    IF term = 0 THEN 0
    ELSE term + ExpTerms(x, (term * x) \div (FxScale * k), k + 1)

\* np.exp(x) for x >= 0
FxExp(x) == ExpTerms(x, FxScale, 1)

RECURSIVE LnIn(_, _, _)
\* The largest y in lo..hi with FxExp(y) <= w, given FxExp(lo) <= w.
LnIn(w, lo, hi) ==
    IF lo >= hi THEN lo
    ELSE LET mid == (lo + hi + 1) \div 2
         IN  IF FxExp(mid) <= w THEN LnIn(w, mid, hi) ELSE LnIn(w, lo, mid - 1)

\* np.log(w) for 1.0 <= w < exp(3)
FxLn(w) == LnIn(w, 0, 3 * FxScale)

\* Values for Dirichlet boundary condition
Tmin == FxExp(0)

Tmid == FxExp(FxScale)

Tmax == FxExp(2 * FxScale)

\* mask = (seg_mem>0).astype(np.uint8) + (seg_dna>0).astype(np.uint8)
Mask(mem, dna) ==
    [p \in Index(mem.shape) |->
       (IF mem.v[p] > 0 THEN 1 ELSE 0) + (IF dna.v[p] > 0 THEN 1 ELSE 0)]

\* The face neighbours of p inside the array.
FaceNeighbours(shape, p) ==
    {q \in {<<p[1] - 1, p[2], p[3]>>, <<p[1] + 1, p[2], p[3]>>,
            <<p[1], p[2] - 1, p[3]>>, <<p[1], p[2] + 1, p[3]>>,
            <<p[1], p[2], p[3] - 1>>, <<p[1], p[2], p[3] + 1>>} :
        q \in Index(shape)}

\* skseg.find_boundaries(mask > level, connectivity=1, mode='thick'): the
\* voxels with a face neighbour on the other side.
FindBoundaries(shape, mask, level) ==
    {p \in Index(shape) :
        \E q \in FaceNeighbours(shape, p) : (mask[q] > level) # (mask[p] > level)}

\* (int(z.mean()), int(y.mean()), int(x.mean())) over the voxels of nuc
Centroid(nuc) ==
    LET n == Cardinality(nuc)
    IN  <<SumOver([p \in nuc |-> p[1]], nuc) \div n,
          SumOver([p \in nuc |-> p[2]], nuc) \div n,
          SumOver([p \in nuc |-> p[3]], nuc) \div n>>

\* skmorpho.binary_dilation of the centroid voxel by the cube
Freeze(shape, c) ==
    {p \in Index(shape) :
        /\ Abs(p[1] - c[1]) <= FreezeHalfWidth
        /\ Abs(p[2] - c[2]) <= FreezeHalfWidth
        /\ Abs(p[3] - c[3]) <= FreezeHalfWidth}

SqDist(p, q) ==
    (p[1] - q[1]) * (p[1] - q[1]) + (p[2] - q[2]) * (p[2] - q[2])
    + (p[3] - q[3]) * (p[3] - q[3])

\* int(distance_transform_edt(mask>0).max()) when the mask has background
\* voxels (and 0 when it has no foreground).
Dmax(shape, mask) ==
    LET fg == {p \in Index(shape) : mask[p] > 0}
        bg == {p \in Index(shape) : mask[p] = 0}
    IN  IF fg = {} THEN 0
        ELSE ISqrt(SetMax({SetMin({SqDist(p, q) : q \in bg}) : p \in fg}))

ClampFreezeLast(omega, freez, colds, warms) ==
    [p \in DOMAIN omega |->
       IF p \in freez THEN Tmin
       ELSE IF p \in warms THEN Tmax
       ELSE IF p \in colds THEN Tmid
       ELSE omega[p]]

\* omega[freez] = tmin; omega[colds] = tmid; omega[warms] = tmax
Clamp(omega, freez, colds, warms) ==
    [p \in DOMAIN omega |->
       IF p \in warms THEN Tmax
       ELSE IF p \in colds THEN Tmid
       ELSE IF p \in freez THEN Tmin
       ELSE omega[p]]

IsInterior(shape, p) ==
    \A k \in 1..3 : 1 <= p[k] /\ p[k] <= shape[k] - 2

\* heat_eq_step: omega[1:-1,1:-1,1:-1] += (sum of the six neighbours)/6 - omega
HeatEqStep(shape, omega) ==
    [p \in Index(shape) |->
       IF IsInterior(shape, p)
       THEN omega[p]
            + ((omega[<<p[1], p[2], p[3] - 1>>] + omega[<<p[1], p[2], p[3] + 1>>]
                + omega[<<p[1], p[2] - 1, p[3]>>] + omega[<<p[1], p[2] + 1, p[3]>>]
                + omega[<<p[1] + 1, p[2], p[3]>>] + omega[<<p[1] - 1, p[2], p[3]>>])
               \div 6
               - omega[p])
       ELSE omega[p]]

\* np.exp(np.power(np.linspace(0.0,1.0,nisos), 4)), entries 1..nisos
ExpBins(nisos) ==
    [j \in 1..nisos |->
       FxExp((FxScale * (j - 1) * (j - 1) * (j - 1) * (j - 1))
             \div ((nisos - 1) * (nisos - 1) * (nisos - 1) * (nisos - 1)))]

\* bins = 1 - (bins-bins.min())/(bins.max()-bins.min())
Bins(nisos) ==
    LET b == ExpBins(nisos)
        lo == SetMin({b[j] : j \in 1..nisos})
        hi == SetMax({b[j] : j \in 1..nisos})
    IN  [j \in 1..nisos |-> FxScale - (FxScale * (b[j] - lo)) \div (hi - lo)]

\* bins[::-1]
Reversed(b) == [j \in 1..Len(b) |-> b[Len(b) + 1 - j]]

\* np.digitize(x, bins) for increasing bins: the number of edges <= x.
Digitize(x, bins) == Cardinality({j \in 1..Len(bins) : bins[j] <= x})

\* omega[mask==0] = 0; omega[omega>0] = np.log(omega[omega>0])
LogField(shape, mask, omega) ==
    [p \in Index(shape) |->
       IF mask[p] = 0 THEN 0
       ELSE IF omega[p] > 0 THEN FxLn(omega[p]) ELSE omega[p]]

\* geodists before the cast: lines 106-115
Bands(shape, mask, logomega, nisos, centroid) ==
    LET edges == Reversed(Bins(nisos))
    IN  [p \in Index(shape) |->
           IF p = centroid THEN 1
           ELSE IF mask[p] = 2 THEN 1 + Digitize(logomega[p], edges)
           ELSE IF mask[p] = 1
                THEN (nisos + 1) + Digitize(logomega[p] - FxScale, edges)
           ELSE 0]

\* geodists.astype(np.uint8); geodists[geodists==0] = 1 + geodists.max()
FillCrop(shape, bands) ==
    LET g == [p \in Index(shape) |-> bands[p] % Uint8Mod]
        top == SetMax({g[p] : p \in Index(shape)})
    IN  [p \in Index(shape) |-> IF g[p] = 0 THEN (1 + top) % Uint8Mod ELSE g[p]]

\* geodesics[roi...] = geodists; geodesics[geodesics==0] = geodists.max()
Paste(fullshape, roi, shape, geodists) ==
    LET top == SetMax({geodists[p] : p \in Index(shape)})
    IN  [q \in Index(fullshape) |->
           LET p == <<q[1] - roi[1], q[2] - roi[3], q[3] - roi[5]>>
               g == IF p \in Index(shape) THEN geodists[p] ELSE 0
           IN  IF g = 0 THEN top ELSE g]

InitGeo ==
    /\ \E m1 \in 0..(GeoSide - 1), notch \in Notches,
          d0 \in {0, 1}, wide \in BOOLEAN, nisos \in GeoNisos :
         geo = [pc |-> "call",
                seg_mem |-> Indicator(GeoShape, Cube(0, m1) \ notch),
                seg_dna |-> Indicator(GeoShape,
                               Cube(d0, IF wide THEN GeoSide - 1 ELSE d0)),
                nisos |-> nisos,
                roi |-> <<>>, shape |-> <<0, 0, 0>>, mask |-> <<>>,
                dmax |-> 0, omega |-> <<>>,
                warms |-> {}, colds |-> {}, freez |-> {},
                centroid |-> <<0, 0, 0>>, run |-> 0,
                geodesics |-> <<>>]
    /\ crop = Idle /\ probe = Idle /\ shell = Idle
    /\ trace = Idle /\ vox = Idle /\ avg = Idle

\* The cropped mask of a call whose membrane volume is not empty.
CroppedMask(g) ==
    LET roi == Roi(g.seg_mem)
    IN  Mask(CropTo(g.seg_mem, roi), CropTo(g.seg_dna, roi))

CroppedShape(g) == CropTo(g.seg_mem, Roi(g.seg_mem)).shape

\* The crop raises (empty membrane), edtm.max() raises (empty crop), or
\* int(z.mean()) raises (no nucleus voxel in the crop).
GeoSetupRaises(g) ==
    IF CropRaises(g.seg_mem) THEN TRUE
    ELSE \/ Index(CroppedShape(g)) = {}
         \/ \A p \in Index(CroppedShape(g)) : CroppedMask(g)[p] # 2

GeoRaise ==
    /\ geo.pc = "call"
    /\ GeoSetupRaises(geo)
    /\ geo' = [geo EXCEPT !.pc = "error"]
    /\ UNCHANGED <<crop, probe, shell, trace, vox, avg>>

\* Lines 57-91: crop, mask, dmax, the three voxel sets, the initial state.
GeoSetup ==
    /\ geo.pc = "call"
    /\ ~GeoSetupRaises(geo)
    /\ LET roi == Roi(geo.seg_mem)
           shape == CroppedShape(geo)
           mask == CroppedMask(geo)
           c == Centroid({p \in Index(shape) : mask[p] = 2})
           warms == FindBoundaries(shape, mask, 0)
           colds == FindBoundaries(shape, mask, 1)
           freez == Freeze(shape, c)
       IN  \E d \in 0..MaxFreeDmax :
             /\ (\E p \in Index(shape) : mask[p] = 0) => d = 0
             /\ geo' = [geo EXCEPT
                          !.roi = roi, !.shape = shape, !.mask = mask,
                          !.dmax = IF \E p \in Index(shape) : mask[p] = 0
                                   THEN Dmax(shape, mask) ELSE d,
                          !.warms = warms, !.colds = colds, !.freez = freez,
                          !.centroid = c,
                          !.omega = Clamp([p \in Index(shape) |-> Tmid],
                                          freez, colds, warms),
                          !.run = 0,
                          !.pc = "relax"]
    /\ UNCHANGED <<crop, probe, shell, trace, vox, avg>>

\* One pass of the relaxation loop: the step, then the three resets.
GeoRelax ==
    /\ geo.pc = "relax"
    /\ geo.run < RunsPerDmax * geo.dmax
    /\ geo' = [geo EXCEPT
                 !.omega = Clamp(HeatEqStep(geo.shape, geo.omega),
                                 geo.freez, geo.colds, geo.warms),
                 !.run = geo.run + 1]
    /\ UNCHANGED <<crop, probe, shell, trace, vox, avg>>

\* Lines 102-124: the logarithm, the bands, the sentinel, the paste.
GeoBin ==
    /\ geo.pc = "relax"
    /\ geo.run = RunsPerDmax * geo.dmax
    /\ LET logomega == LogField(geo.shape, geo.mask, geo.omega)
           bands == Bands(geo.shape, geo.mask, logomega, geo.nisos, geo.centroid)
           geodists == FillCrop(geo.shape, bands)
       IN  geo' = [geo EXCEPT
                     !.omega = logomega,
                     !.geodesics = Paste(geo.seg_mem.shape, geo.roi, geo.shape,
                                         geodists),
                     !.pc = "done"]
    /\ UNCHANGED <<crop, probe, shell, trace, vox, avg>>

NextGeo == GeoRaise \/ GeoSetup \/ GeoRelax \/ GeoBin

SpecGeo == InitGeo /\ [][NextGeo]_vars

\* The voxels of the full volume that were given a band: the foreground
\* voxels of the crop and the centroid voxel.
Banded(g) ==
    {q \in Index(g.seg_mem.shape) :
        LET p == <<q[1] - g.roi[1], q[2] - g.roi[3], q[3] - g.roi[5]>>
        IN  p \in Index(g.shape) /\ (g.mask[p] > 0 \/ p = g.centroid)}

\* C5: in the returned volume every voxel that was not given a band holds
\* one and the same value, and that value is one more than the largest band
\* given to any voxel.
C5_SentinelAboveBands ==
    geo.pc = "done" =>
        LET top == SetMax({geo.geodesics[q] : q \in Banded(geo)})
        IN  \A q \in Index(geo.seg_mem.shape) \ Banded(geo) :
               geo.geodesics[q] = 1 + top

\* C9 as stated: after the initial state is set and after every pass of the
\* loop, every freeze voxel holds exp(0), every cold voxel exp(1) and every
\* warm voxel exp(2).
C9_AllThreeSetsHold ==
    geo.pc = "relax" =>
        /\ \A p \in geo.freez : geo.omega[p] = Tmin
        /\ \A p \in geo.colds : geo.omega[p] = Tmid
        /\ \A p \in geo.warms : geo.omega[p] = Tmax

\* C9, amended: after the initial state is set and after every pass of the
\* loop, every warm voxel holds exp(2), every cold voxel that is not warm
\* holds exp(1), and every freeze voxel that is neither cold nor warm holds
\* exp(0).
C9_LaterSetsOverride ==
    geo.pc = "relax" =>
        /\ \A p \in geo.warms : geo.omega[p] = Tmax
        /\ \A p \in geo.colds \ geo.warms : geo.omega[p] = Tmid
        /\ \A p \in geo.freez \ (geo.colds \cup geo.warms) : geo.omega[p] = Tmin

C9_Witness ==
    /\ geo.pc = "relax"
    /\ geo.run >= 1
    /\ geo.warms \cap geo.colds # {}
    /\ (geo.freez \cap geo.colds) \ geo.warms # {}
    /\ geo.freez \ (geo.colds \cup geo.warms) # {}

====
